---- MODULE Spec2Model ----
(***************************************************************************)
(* Model of the go-raytracing renderer (src/main.go, src/vector3).         *)
(*                                                                         *)
(* Five specifications share this module:                                  *)
(*   Spec       the render driver of main: the worker goroutines, the      *)
(*              WaitGroup, the pixel buffer and the persisting steps;      *)
(*   SpecFind   FindClosest as a function of its inputs;                   *)
(*   SpecLight  Light.ComputeLighting as a function of its inputs;         *)
(*   SpecBlend  one colour channel of TraceRay's reflection blend;         *)
(*   SpecTrace  one top-level TraceRay call, run as a machine with an      *)
(*              explicit call stack.                                       *)
(*                                                                         *)
(* float64 scalars are integers in units of 1/1000, vector components are  *)
(* integers in whole units.  The two roots ComputeIntersection obtains     *)
(* through math.Sqrt and division are drawn from bounded sets; everything  *)
(* the code decides by comparison or by integer narrowing is computed as   *)
(* the code computes it.                                                   *)
(***************************************************************************)
EXTENDS Integers, Sequences, FiniteSets, TLC

\* ------------------------------------------------------------------ bounds
\* longest sphere list FindClosest and ComputeLighting are applied to
MaxSpheres == 2
\* largest recursionDepth of a top-level TraceRay call (3 in main.go:200)
MaxDepth == 3
\* a reflective coefficient is a multiple of 1 / 2^ReflBits
ReflBits == 2
\* w, h of main (2048 in the source, w = h); the model renders Size x Size.
Size == 2
\* largest value runtime.NumCPU() takes in the model
MaxCpus == 3

\* ------------------------------------------------------- render driver state
VARIABLES
  cpus,        \* runtime.NumCPU()
  spawned,     \* loop variable i of main's spawn loop
  wg,          \* the WaitGroup counter
  pc,          \* main goroutine: "spawn", "wait", "create", "encode", "exit"
  wpc,         \* worker goroutine i: "idle", "run", "panicking", "fatal", "done"
  wrow, wcol,  \* worker i's loop variables row, col
  img,         \* the pixel buffer: cell <<x, y>> -> colour, Unset before the first Set
  writers,     \* history: cell -> sequence of the workers that called Set on it
  panicAt,     \* the pixel whose TraceRay call panics (NoCell: none does)
  file,        \* "none", "created", "encoded": img.png on disk
  createFailed, encodeFailed,   \* os.Create / jpeg.Encode returned an error
  createCalls, encodeCalls,     \* how often each was called
  reported,    \* an error message reached the user
  exitStatus   \* Running, or the exit status of the process

\* ---------------------------------------------- state of the function specs
VARIABLES
  args,        \* the inputs the function is applied to
  ret          \* NotCalled, or what the function returned

fnVars == <<args, ret>>

\* ------------------------------------------------ state of one TraceRay run
VARIABLES
  targs,       \* the arguments of the top-level call: direction, spheres, depth
  stack,       \* the TraceRay invocations in progress, the innermost last
  tstatus,     \* "run", "done" (the top-level call returned), "panic"
  tret,        \* the colour the last finished invocation returned
  calls,       \* the number of TraceRay invocations made so far
  warned,      \* the zero-direction warning was printed
  last         \* history: the last finished invocation that hit a sphere

traceVars == <<targs, stack, tstatus, tret, calls, warned, last>>

renderVars == <<cpus, spawned, wg, pc, wpc, wrow, wcol, img, writers, panicAt,
                file, createFailed, encodeFailed, createCalls, encodeCalls,
                reported, exitStatus>>

W == Size
H == Size
Cells == (0..(W - 1)) \X (0..(H - 1))
Workers == 0..(MaxCpus - 1)
NoCell == <<-1, -1>>
Unset == <<>>
Running == -1

\* main.go:195-197  rayDirection of pixel (row, col), in units of 1/w
RayDirection(row, col) == <<2 * row + 1 - W, H - (2 * col + 1), W>>

\* main.go:201  the colour TraceRay returns for a primary ray.  TraceRay reads
\* only its arguments and the read-only scene, so the colour is a function of
\* the ray; it is represented by the ray it was computed from.
PrimaryColor(row, col) == [ray |-> RayDirection(row, col)]

\* main.go:202  img.Set(row, col, clr): the point the colour is stored at
SetPointSwapped(row, col) == <<col, row>>
SetPoint(row, col) == <<row, col>>

\* image.RGBA.Set as called at main.go:202: a point outside the rectangle is ignored
ImgSet(buf, p, clr) == IF p \in Cells THEN [buf EXCEPT ![p] = clr] ELSE buf

\* main.go:192  first row of worker i
FirstRow(i) == i

\* main.go:192  row += cpus
NextRowByOne(row, n) == row + 1
NextRow(row, n) == row + n

RenderInit ==
  /\ cpus \in 1..MaxCpus
  /\ panicAt \in Cells \cup {NoCell}
  /\ spawned = 0
  /\ wg = 0
  /\ pc = "spawn"
  /\ wpc = [i \in Workers |-> "idle"]
  /\ wrow = [i \in Workers |-> 0]
  /\ wcol = [i \in Workers |-> 0]
  /\ img = [c \in Cells |-> Unset]
  /\ writers = [c \in Cells |-> <<>>]
  /\ file = "none"
  /\ createFailed = FALSE
  /\ encodeFailed = FALSE
  /\ createCalls = 0
  /\ encodeCalls = 0
  /\ reported = FALSE
  /\ exitStatus = Running

\* main.go:188-190  one iteration of the spawn loop: wg.Add(1); go func(i)
Spawn ==
  /\ exitStatus = Running
  /\ pc = "spawn"
  /\ spawned < cpus
  /\ wg' = wg + 1
  /\ wpc' = [wpc EXCEPT ![spawned] = "run"]
  /\ wrow' = [wrow EXCEPT ![spawned] = FirstRow(spawned)]
  /\ wcol' = [wcol EXCEPT ![spawned] = 0]
  /\ spawned' = spawned + 1
  /\ UNCHANGED <<cpus, pc, img, writers, panicAt, file, createFailed,
                 encodeFailed, createCalls, encodeCalls, reported, exitStatus>>
  /\ UNCHANGED <<fnVars, traceVars>>

\* main.go:188, 207  the spawn loop ends and main reaches wg.Wait()
SpawnEnd ==
  /\ exitStatus = Running
  /\ pc = "spawn"
  /\ spawned >= cpus
  /\ pc' = "wait"
  /\ UNCHANGED <<cpus, spawned, wg, wpc, wrow, wcol, img, writers, panicAt,
                 file, createFailed, encodeFailed, createCalls, encodeCalls,
                 reported, exitStatus>>
  /\ UNCHANGED <<fnVars, traceVars>>

\* main.go:192-203  worker i renders one pixel: TraceRay, img.Set, col++,
\* and row += cpus at the end of the row
WorkerPixel(i) ==
  /\ exitStatus = Running
  /\ wpc[i] = "run"
  /\ wrow[i] < H
  /\ <<wrow[i], wcol[i]>> # panicAt
  /\ LET p == SetPoint(wrow[i], wcol[i])
     IN  /\ img' = ImgSet(img, p, PrimaryColor(wrow[i], wcol[i]))
         /\ writers' = IF p \in Cells
                       THEN [writers EXCEPT ![p] = Append(@, i)]
                       ELSE writers
  /\ IF wcol[i] + 1 < W
     THEN /\ wcol' = [wcol EXCEPT ![i] = @ + 1]
          /\ wrow' = wrow
     ELSE /\ wcol' = [wcol EXCEPT ![i] = 0]
          /\ wrow' = [wrow EXCEPT ![i] = NextRow(@, cpus)]
  /\ UNCHANGED <<cpus, spawned, wg, pc, wpc, panicAt, file, createFailed,
                 encodeFailed, createCalls, encodeCalls, reported, exitStatus>>
  /\ UNCHANGED <<fnVars, traceVars>>

\* main.go:201 with main.go:59, 83  TraceRay panics in worker i: the goroutine
\* starts panicking, nothing is stored for the pixel
WorkerPanic(i) ==
  /\ exitStatus = Running
  /\ wpc[i] = "run"
  /\ wrow[i] < H
  /\ <<wrow[i], wcol[i]>> = panicAt
  /\ wpc' = [wpc EXCEPT ![i] = "panicking"]
  /\ UNCHANGED <<cpus, spawned, wg, pc, wrow, wcol, img, writers, panicAt,
                 file, createFailed, encodeFailed, createCalls, encodeCalls,
                 reported, exitStatus>>
  /\ UNCHANGED <<fnVars, traceVars>>

\* main.go:191  the deferred wg.Done() of a panicking worker runs before the
\* runtime ends the process
WorkerPanicDone(i) ==
  /\ exitStatus = Running
  /\ wpc[i] = "panicking"
  /\ wg' = wg - 1
  /\ wpc' = [wpc EXCEPT ![i] = "fatal"]
  /\ UNCHANGED <<cpus, spawned, pc, wrow, wcol, img, writers, panicAt, file,
                 createFailed, encodeFailed, createCalls, encodeCalls,
                 reported, exitStatus>>
  /\ UNCHANGED <<fnVars, traceVars>>

\* the Go runtime ends the process of an unrecovered panic with status 2
\* after the goroutine's deferred calls have run
WorkerCrash(i) ==
  /\ exitStatus = Running
  /\ wpc[i] = "fatal"
  /\ exitStatus' = 2
  /\ reported' = TRUE
  /\ UNCHANGED <<cpus, spawned, wg, pc, wpc, wrow, wcol, img, writers,
                 panicAt, file, createFailed, encodeFailed, createCalls,
                 encodeCalls>>
  /\ UNCHANGED <<fnVars, traceVars>>

\* main.go:191-192  worker i leaves its row loop and returns: deferred wg.Done()
WorkerReturn(i) ==
  /\ exitStatus = Running
  /\ wpc[i] = "run"
  /\ wrow[i] >= H
  /\ wg' = wg - 1
  /\ wpc' = [wpc EXCEPT ![i] = "done"]
  /\ UNCHANGED <<cpus, spawned, pc, wrow, wcol, img, writers, panicAt, file,
                 createFailed, encodeFailed, createCalls, encodeCalls,
                 reported, exitStatus>>
  /\ UNCHANGED <<fnVars, traceVars>>

\* main.go:207  wg.Wait() returns once the counter is zero
Wait ==
  /\ exitStatus = Running
  /\ pc = "wait"
  /\ wg = 0
  /\ pc' = "create"
  /\ UNCHANGED <<cpus, spawned, wg, wpc, wrow, wcol, img, writers, panicAt,
                 file, createFailed, encodeFailed, createCalls, encodeCalls,
                 reported, exitStatus>>
  /\ UNCHANGED <<fnVars, traceVars>>

\* main.go:208-211  os.Create("img.png"); panic(err) on failure
Create ==
  /\ exitStatus = Running
  /\ pc = "create"
  /\ createCalls' = createCalls + 1
  /\ \E ok \in BOOLEAN :
       IF ok
       THEN /\ file' = "created"
            /\ pc' = "encode"
            /\ UNCHANGED <<createFailed, reported, exitStatus>>
       ELSE /\ createFailed' = TRUE
            /\ reported' = TRUE
            /\ exitStatus' = 2
            /\ pc' = "exit"
            /\ file' = file
  /\ UNCHANGED <<cpus, spawned, wg, wpc, wrow, wcol, img, writers, panicAt,
                 encodeFailed, encodeCalls>>
  /\ UNCHANGED <<fnVars, traceVars>>

\* main.go:212-216  jpeg.Encode(f, img, nil); on failure the error is printed;
\* main then returns (deferred f.Close()) and the process exits with status 0
Encode ==
  /\ exitStatus = Running
  /\ pc = "encode"
  /\ encodeCalls' = encodeCalls + 1
  /\ \E ok \in BOOLEAN :
       IF ok
       THEN /\ file' = "encoded"
            /\ UNCHANGED <<encodeFailed, reported>>
       ELSE /\ encodeFailed' = TRUE
            /\ reported' = TRUE
            /\ file' = file
  /\ pc' = "exit"
  /\ exitStatus' = 0
  /\ UNCHANGED <<cpus, spawned, wg, wpc, wrow, wcol, img, writers, panicAt,
                 createFailed, createCalls>>
  /\ UNCHANGED <<fnVars, traceVars>>

RenderNext ==
  \/ Spawn
  \/ SpawnEnd
  \/ \E i \in Workers : WorkerPixel(i)
  \/ \E i \in Workers : WorkerPanic(i)
  \/ \E i \in Workers : WorkerPanicDone(i)
  \/ \E i \in Workers : WorkerCrash(i)
  \/ \E i \in Workers : WorkerReturn(i)
  \/ Wait
  \/ Create
  \/ Encode

\* ---------------------------------------------------- render driver claims
\* every spawned worker has returned from its row loop without a panic
AllWorkersDone ==
  /\ pc # "spawn"
  /\ \A i \in 0..(cpus - 1) : wpc[i] = "done"

\* C1: each cell of the pixel buffer is written at most once, only by the
\* worker whose index is the cell's row modulo cpus (worker i writes rows
\* i, i+cpus, i+2*cpus, ... below h), and once all workers have finished
\* every cell has been written exactly once.
C1_EachCellOnceByStride ==
  /\ \A c \in Cells : Len(writers[c]) <= 1
  /\ \A c \in Cells : \A k \in 1..Len(writers[c]) :
        /\ writers[c][k] \in 0..(cpus - 1)
        /\ c[1] % cpus = writers[c][k]
  /\ AllWorkersDone =>
        \A c \in Cells : Len(writers[c]) = 1 /\ img[c] # Unset

\* C1 witness: two or more workers have finished and each has written a row
C1_Witness ==
  /\ AllWorkersDone
  /\ cpus >= 2
  /\ \A c \in Cells : Len(writers[c]) = 1
  /\ \E c, d \in Cells : writers[c] # writers[d]

\* C2: the image file is created and encoded only when every worker has
\* finished all of its rows without a panic; a panic in a worker means that
\* no file is ever created.
C2_PersistOnlyAfterCleanFinish ==
  (createCalls > 0 \/ file # "none") =>
     \A i \in 0..(cpus - 1) : wpc[i] = "done"

\* C3: when a render is complete the pixel buffer is the same function of
\* the image size, whatever the worker count and the interleaving were:
\* cell (x, y) holds the colour TraceRay returns for the ray of pixel (x, y).
C3_DeterministicBuffer ==
  AllWorkersDone =>
     img = [c \in Cells |-> PrimaryColor(c[1], c[2])]

\* C3 witness: a complete render by several workers has been encoded
C3_Witness ==
  /\ AllWorkersDone
  /\ cpus = MaxCpus
  /\ file = "encoded"
  /\ \A c \in Cells : img[c] # Unset

\* C4: once the program has ended after a complete render, a failed
\* os.Create or jpeg.Encode was reported, ended the program with a non-zero
\* exit status, and was not retried.
C4_PersistFailureExitsNonZero ==
  (AllWorkersDone /\ exitStatus # Running /\ (createFailed \/ encodeFailed)) =>
     /\ reported
     /\ exitStatus # 0
     /\ createCalls <= 1
     /\ encodeCalls <= 1

\* the render driver, parked: the value its variables keep in the
\* specifications of the functions
RenderParked ==
  /\ cpus = 1
  /\ panicAt = NoCell
  /\ spawned = 0
  /\ wg = 0
  /\ pc = "spawn"
  /\ wpc = [i \in Workers |-> "idle"]
  /\ wrow = [i \in Workers |-> 0]
  /\ wcol = [i \in Workers |-> 0]
  /\ img = [c \in Cells |-> Unset]
  /\ writers = [c \in Cells |-> <<>>]
  /\ file = "none"
  /\ createFailed = FALSE
  /\ encodeFailed = FALSE
  /\ createCalls = 0
  /\ encodeCalls = 0
  /\ reported = FALSE
  /\ exitStatus = Running

\* one TraceRay run, parked
TraceParked ==
  /\ targs = <<>>
  /\ stack = <<>>
  /\ tstatus = "done"
  /\ tret = <<>>
  /\ calls = 0
  /\ warned = FALSE
  /\ last = [hit |-> FALSE, reflective |-> 0, depth |-> 0, local |-> <<>>,
             reflected |-> <<>>, color |-> <<>>]

\* the function specifications, parked
FnParked ==
  /\ args = <<>>
  /\ ret = [kind |-> "notcalled", val |-> <<>>]

\* ----------------------------------------------------------- float64 values
\* Scalars (ray parameters t, radii, intensities, lengths) are integers in
\* units of 1/1000; vector components are integers in whole units.
\* 1.0 (tMax of a point light's shadow ray, main.go:45)
One == 1000
\* main.go:27  Epsilon = 0.001
Epsilon == 1
\* main.go:28  MaxIntensity = 1.
MaxIntensity == One
\* math.MaxFloat64, the largest value a scalar takes (main.go:99)
MaxFloat64 == 1000000000
\* main.go:91  the root ComputeIntersection returns for a negative discriminant
NoRoot == 0 - One

\* what a call came to: not made yet, a panic, or a returned value
NotCalled == [kind |-> "notcalled", val |-> <<>>]
Panic == [kind |-> "panic", val |-> <<>>]
Returned(v) == [kind |-> "ok", val |-> v]

Abs(x) == IF x < 0 THEN 0 - x ELSE x
MaxOf(x, y) == IF x >= y THEN x ELSE y
MinOf(x, y) == IF x <= y THEN x ELSE y

RECURSIVE SqrtBetween(_, _, _)
\* the largest k in lo..hi with k * k <= n
SqrtBetween(n, lo, hi) ==
  IF lo >= hi THEN lo
  ELSE LET mid == (lo + hi + 1) \div 2
       IN  IF mid * mid <= n THEN SqrtBetween(n, mid, hi)
           ELSE SqrtBetween(n, lo, mid - 1)

\* math.Sqrt of a scalar n / 10^6, as a scalar
Sqrt(n) == SqrtBetween(n, 0, MinOf(n, 46340))

\* ------------------------------------------------------------------ vector3
\* vector3.go:40-46, 182-188
Sub(v1, v2) == <<v1[1] - v2[1], v1[2] - v2[2], v1[3] - v2[3]>>
\* vector3.go:112-114, 269-271
Dot(v1, v2) == v1[1] * v2[1] + v1[2] * v2[2] + v1[3] * v2[3]
\* vector3.go:254-260
Negate(v) == <<0 - v[1], 0 - v[2], 0 - v[3]>>
\* vector3.go:281-283  (a scalar, so in units of 1/1000)
Length(v) == Sqrt(Dot(v, v) * One * One)
\* vector3.go:295-302  v.Reflect(other)
Reflect(v, other) ==
  LET factor == (0 - 2) * Dot(v, other)
  IN  <<factor * v[1] + other[1], factor * v[2] + other[2], factor * v[3] + other[3]>>

\* main.go:116-121
ReflectRay(ray, normal) == Reflect(normal, Negate(ray))

\* ------------------------------------------------------------------- Sphere
\* main.go:67-73; reflective is the numerator of a fraction over ReflDen
Sphere(radius, center, color, specular, reflective) ==
  [radius |-> radius, center |-> center, color |-> color,
   specular |-> specular, reflective |-> reflective]

\* main.go:100  the sphere FindClosest starts from and returns for "no hit"
NullSphere == Sphere(0, <<0, 0, 0>>, <<0, 0, 0, 255>>, 0, 0)

\* main.go:75-77
IsNull(s) ==
  /\ Abs(s.radius - 0) <= Epsilon
  /\ Abs(Length(s.center) - 0) <= Epsilon

\* main.go:79-96  ComputeIntersection: the panic of a == 0 and, for a ray with
\* a # 0, the two roots.  The roots are the result of math.Sqrt and of two
\* divisions; roots is the pair the caller drew for this sphere and ray.
ComputeIntersection(direction, roots) ==
  LET a == Dot(direction, direction)
  IN  IF a = 0 THEN Panic ELSE Returned(roots)

\* main.go:104-111  one iteration of FindClosest's loop; closest is the pair
\* (closestSphere, closestT) so far
ClosestStep(closest, sphere, roots, tMin, tMax) ==
  LET t1 == roots[1]
      t2 == roots[2]
      c1 == IF t1 >= tMin /\ t1 <= tMax /\ t1 < closest.t
            THEN [sphere |-> sphere, t |-> t1] ELSE closest
  IN  IF t2 >= tMin /\ t2 <= tMax /\ t2 < c1.t
      THEN [sphere |-> sphere, t |-> t2] ELSE c1

RECURSIVE FindClosestFrom(_, _, _, _, _, _, _)
\* main.go:102-113  the loop of FindClosest from sphere k on
FindClosestFrom(k, closest, direction, spheres, roots, tMin, tMax) ==
  IF k > Len(spheres) THEN Returned(closest)
  ELSE LET ts == ComputeIntersection(direction, roots[k])
       IN  IF ts.kind = "panic" THEN Panic
           ELSE FindClosestFrom(k + 1,
                                ClosestStep(closest, spheres[k], ts.val, tMin, tMax),
                                direction, spheres, roots, tMin, tMax)

\* main.go:98-114  roots[k] is the pair of roots of spheres[k] on the ray
FindClosest(direction, spheres, roots, tMin, tMax) ==
  FindClosestFrom(1, [sphere |-> NullSphere, t |-> MaxFloat64],
                  direction, spheres, roots, tMin, tMax)

\* ------------------------------------------------- inputs of the functions
\* main.go:168-169  the first two spheres of main's scene
RedSphere == Sphere(One, <<0, -1, 3>>, <<255, 0, 0, 255>>, 100, 0)
GreenSphere == Sphere(One, <<-2, 0, 3>>, <<0, 255, 0, 255>>, 25, 0)
\* a sphere of radius 0 centred at the origin: a sphere IsNull takes for "no hit"
PointSphere == Sphere(0, <<0, 0, 0>>, <<0, 0, 255, 255>>, 15, 0)

\* ray parameters around the interval ends the callers use
TValues == {0, Epsilon, One \div 2, One, 2 * One, MaxFloat64}
\* what ComputeIntersection returns: (-1, -1), or t1 >= t2 (a = D.D > 0)
RootPairs ==
  {<<NoRoot, NoRoot>>} \cup {p \in TValues \X TValues : p[1] >= p[2]}
\* main.go:85-95  the pairs a sphere can return: with radius 0 the
\* discriminant is never positive, so two roots are one double root
SphereRoots(s) ==
  IF s.radius = 0 THEN {p \in RootPairs : p[1] = p[2]} ELSE RootPairs
RootsOf(spheres) ==
  {roots \in [1..Len(spheres) -> RootPairs] :
     \A k \in 1..Len(spheres) : roots[k] \in SphereRoots(spheres[k])}
\* main.go:198-199, main.go:152, main.go:45-47  the intervals of the callers
Intervals == {<<One, MaxFloat64>>, <<Epsilon, MaxFloat64>>, <<Epsilon, One>>}
Directions == {<<0, 0, 0>>, <<0, 0, 1>>}

SeqsUpTo(S, n) == UNION {[1..k -> S] : k \in 0..n}

\* ------------------------------------------------------------- SpecFind
FindInit ==
  /\ RenderParked
  /\ TraceParked
  /\ ret = NotCalled
  /\ \E n \in 0..MaxSpheres :
     \E spheres \in [1..n -> {RedSphere, GreenSphere}] :
     \E roots \in RootsOf(spheres) :
     \E iv \in Intervals :
     \E d \in Directions :
        args = [direction |-> d, spheres |-> spheres, roots |-> roots,
                tMin |-> iv[1], tMax |-> iv[2]]

\* a call of FindClosest
CallFindClosest ==
  /\ ret.kind = "notcalled"
  /\ ret' = FindClosest(args.direction, args.spheres, args.roots,
                        args.tMin, args.tMax)
  /\ UNCHANGED <<args, renderVars, traceVars>>

\* the roots of sphere k that lie in [tMin, tMax]
RootsIn(k) ==
  {t \in {args.roots[k][1], args.roots[k][2]} : t >= args.tMin /\ t <= args.tMax}
AllRootsIn == UNION {RootsIn(k) : k \in 1..Len(args.spheres)}
SmallestRoot == CHOOSE t \in AllRootsIn : \A u \in AllRootsIn : t <= u
FirstSphereAt(t) ==
  CHOOSE k \in 1..Len(args.spheres) :
    /\ t \in RootsIn(k)
    /\ \A j \in 1..(k - 1) : t \notin RootsIn(j)

\* C7: FindClosest returns the smallest root lying in [tMin, tMax] over both
\* roots of all spheres, with the earliest sphere in scene order that attains
\* it; with no root in [tMin, tMax] it returns the null sphere (radius 0,
\* centre at the origin) and the largest representable t.
C7_ClosestIsSmallestRootInRange ==
  ret.kind = "ok" =>
     IF AllRootsIn = {}
     THEN ret.val = [sphere |-> NullSphere, t |-> MaxFloat64]
     ELSE ret.val = [sphere |-> args.spheres[FirstSphereAt(SmallestRoot)],
                     t |-> SmallestRoot]

\* -------------------------------------------------------------------- Light
\* main.go:22-25
Point == 0
Ambient == 1

\* main.go:30-34
Light(lightType, position, intensity) ==
  [lightType |-> lightType, position |-> position, intensity |-> intensity]

RECURSIVE Pow(_, _)
\* math.Pow(x, n) for a scalar x >= 0 and a whole exponent n >= 0
Pow(x, n) == IF n <= 0 THEN One ELSE (x * Pow(x, n - 1)) \div One

\* main.go:51-62  the intensity an unoccluded light adds: the diffuse term and,
\* for specular > -1, the specular term or its panic.  point and normal have
\* non-zero length in every input drawn.
Unoccluded(light, lightDir, point, normal, inverseDir, specular) ==
  LET lightValue == MaxOf(0, Dot(lightDir, normal))
      diffuse == (light.intensity * lightValue * One)
                   \div ((Length(point) * Length(normal)) \div One)
      reflectDir == ReflectRay(lightDir, normal)
      specularValue == Dot(reflectDir, inverseDir)
      reflectDirLenght == Length(reflectDir)
      inverseDirLenght == Length(inverseDir)
  IN  IF specular > -1
      THEN IF reflectDirLenght = 0 \/ inverseDirLenght = 0
           THEN Panic
           ELSE Returned(diffuse + (light.intensity *
                  Pow((MaxOf(0, specularValue) * One * One)
                        \div ((reflectDirLenght * inverseDirLenght) \div One),
                      specular)) \div One)
      ELSE Returned(diffuse)

\* main.go:36-65  roots[k] is the pair of roots of spheres[k] on the shadow ray
ComputeLighting(light, point, normal, inverseDir, specular, spheres, roots) ==
  IF light.lightType = Ambient THEN Returned(light.intensity)
  ELSE LET lightDir == IF light.lightType = Point
                       THEN Sub(light.position, point) ELSE <<0, 0, 0>>
           tMax == IF light.lightType = Point THEN One ELSE MaxFloat64
           tMin == Epsilon
           closest == FindClosest(lightDir, spheres, roots, tMin, tMax)
       IN  IF closest.kind = "panic" THEN Panic
           ELSE IF IsNull(closest.val.sphere)
           THEN LET lit == Unoccluded(light, lightDir, point, normal,
                                      inverseDir, specular)
                IN  IF lit.kind = "panic" THEN Panic
                    ELSE Returned(MaxOf(0, lit.val))
           ELSE Returned(MaxOf(0, 0))

\* ------------------------------------------------------------- SpecLight
\* a point light of intensity 0.2 (main.go:173-174) on the z axis, one at the
\* surface point itself, and main's ambient light (main.go:175)
LightKinds ==
  {Light(Point, <<0, 0, 1>>, 200), Light(Point, <<0, 0, -1>>, 200),
   Light(Ambient, <<0, 0, 0>>, 300)}
SurfacePoint == <<0, 0, -1>>

LightInit ==
  /\ RenderParked
  /\ TraceParked
  /\ ret = NotCalled
  /\ \E light \in LightKinds :
     \E normal \in {<<0, 0, 1>>, <<0, 0, -1>>} :
     \E inverseDir \in {<<0, 0, 1>>, <<0, 0, 0>>} :
     \E specular \in {-1, 2} :
     \E n \in 0..MaxSpheres :
     \E spheres \in [1..n -> {RedSphere, PointSphere}] :
     \E roots \in RootsOf(spheres) :
        args = [light |-> light, point |-> SurfacePoint, normal |-> normal,
                inverseDir |-> inverseDir, specular |-> specular,
                spheres |-> spheres, roots |-> roots]

\* a call of light.ComputeLighting
CallComputeLighting ==
  /\ ret.kind = "notcalled"
  /\ ret' = ComputeLighting(args.light, args.point, args.normal,
                            args.inverseDir, args.specular, args.spheres,
                            args.roots)
  /\ UNCHANGED <<args, renderVars, traceVars>>

\* some sphere of the scene has a root of the shadow ray within (Epsilon, 1]
ShadowRayBlocked ==
  \E k \in 1..Len(args.spheres) : \E j \in 1..2 :
     args.roots[k][j] > Epsilon /\ args.roots[k][j] <= One

\* C8: a point light whose shadow ray is blocked by any sphere of the scene
\* at a parameter within (Epsilon, 1] contributes exactly 0, whatever the
\* normal, the view direction and the specular exponent.
C8_BlockedPointLightContributesZero ==
  (ret.kind = "ok" /\ args.light.lightType = Point /\ ShadowRayBlocked) =>
     ret.val = 0

\* ------------------------------------------------------------ 8-bit colours
\* the denominator of the reflective coefficients: 2^ReflBits
ReflDen == 2 ^ ReflBits

\* uint8(x) of a float64 x = num / den >= 0: the fraction is dropped and the
\* integer narrowed to 8 bits (main.go:142-144, 155-161)
ToUint8Ceil(num, den) == ((num + den - 1) \div den) % 256
ToUint8(num, den) == (num \div den) % 256

\* main.go:159-161  the uint8 addition
Uint8Add(a, b) == (a + b) % 256

\* main.go:155-157  uint8(float64(localColor.X) * (1 - reflective))
LocalPart(l, reflective) == ToUint8(l * (ReflDen - reflective), ReflDen)
\* main.go:159-161  uint8(float64(reflectedColor.X) * reflective)
ReflectedPart(r, reflective) == ToUint8(r * reflective, ReflDen)

\* main.go:155-161  one channel of the blend
BlendChannelSwapped(l, r, reflective) ==
  Uint8Add(ReflectedPart(l, reflective), LocalPart(r, reflective))
BlendChannel(l, r, reflective) ==
  Uint8Add(ReflectedPart(r, reflective), LocalPart(l, reflective))

\* main.go:155-163  the colour TraceRay returns after the recursive call
Blend(localColor, reflectedColor, reflective) ==
  <<BlendChannel(localColor[1], reflectedColor[1], reflective),
    BlendChannel(localColor[2], reflectedColor[2], reflective),
    BlendChannel(localColor[3], reflectedColor[3], reflective),
    reflectedColor[4]>>

\* main.go:141-146  the sphere's colour scaled by the clamped light value
LocalColor(color, lightSum) ==
  LET lightVal == MinOf(MaxIntensity, lightSum)
  IN  <<ToUint8(color[1] * lightVal, One), ToUint8(color[2] * lightVal, One),
        ToUint8(color[3] * lightVal, One), color[4]>>

\* main.go:130
Background == <<125, 125, 125, 255>>

\* ------------------------------------------------------------- SpecBlend
Channel == 0..255

BlendInit ==
  /\ RenderParked
  /\ TraceParked
  /\ ret = NotCalled
  /\ \E l \in Channel : \E r \in Channel : \E reflective \in 1..ReflDen :
        args = [l |-> l, r |-> r, reflective |-> reflective]

\* the blend of one channel: sum is the addition of the two parts before it
\* is narrowed to 8 bits, out the channel TraceRay returns
CallBlend ==
  /\ ret.kind = "notcalled"
  /\ ret' = Returned([sum |-> ReflectedPart(args.r, args.reflective)
                                + LocalPart(args.l, args.reflective),
                      out |-> BlendChannel(args.l, args.r, args.reflective)])
  /\ UNCHANGED <<args, renderVars, traceVars>>

\* C10: for every reflective coefficient in (0, 1] and every pair of 8-bit
\* channel values the sum trunc(R*r) + trunc(L*(1-r)) is at most 255, so the
\* 8-bit addition returns it unchanged.
C10_BlendNeverWraps ==
  ret.kind = "ok" =>
     /\ ret.val.sum <= 255
     /\ ret.val.out = ret.val.sum

\* C10 witness: a blend of two full channels by a coefficient strictly
\* between 0 and 1, whose two parts are both non-zero
C10_Witness ==
  /\ ret.kind = "ok"
  /\ args.l = 255 /\ args.r = 255
  /\ args.reflective \in 1..(ReflDen - 1)
  /\ ret.val.sum > ReflectedPart(args.r, args.reflective)
  /\ ret.val.sum > LocalPart(args.l, args.reflective)

\* ------------------------------------------------------------- SpecTrace
\* int8 arithmetic of recursionDepth (main.go:123, 153)
Int8(x) == ((x + 128) % 256) - 128

\* main.go:153  the depth the recursive call is made with
ChildDepthSame(depth) == Int8(depth)
ChildDepth(depth) == Int8(depth - 1)

\* main.go:168-171  spheres of a scene: reflective 0, 1/2 (main's second
\* sphere) and 1
MattSphere == Sphere(One, <<0, -1, 3>>, <<255, 0, 0, 255>>, 100, 0)
HalfSphere == Sphere(One, <<-2, 0, 3>>, <<0, 255, 0, 255>>, 25, ReflDen \div 2)
MirrorSphere == Sphere(One, <<2, 0, 3>>, <<0, 0, 255, 255>>, 15, ReflDen)
TraceSpheres == {MattSphere, HalfSphere, MirrorSphere}

\* main.go:137-140  the sums of ComputeLighting over the lights that are drawn
LightSums == {One \div 2, One + One \div 2}
\* main.go:135-136  the unit normal that is drawn for a hit
Normals == {<<0, 0, 1>>}
\* what a hit is recorded with when no reflected ray was traced
NoColor == <<>>

Frame(direction, depth, tMin) ==
  [direction |-> direction, depth |-> depth, tMin |-> tMin, stage |-> "enter",
   sphere |-> NullSphere, local |-> NoColor]

TraceInit ==
  /\ RenderParked
  /\ FnParked
  /\ \E d \in Directions : \E depth \in (-1)..MaxDepth :
     \E spheres \in SeqsUpTo(TraceSpheres, MaxSpheres) :
        /\ targs = [direction |-> d, spheres |-> spheres, depth |-> depth]
        \* main.go:198-201  tMin = 1, tMax = math.MaxFloat64
        /\ stack = <<Frame(d, depth, One)>>
  /\ tstatus = "run"
  /\ tret = NoColor
  /\ calls = 1
  /\ warned = FALSE
  /\ last = [hit |-> FALSE, reflective |-> 0, depth |-> 0, local |-> NoColor,
             reflected |-> NoColor, color |-> NoColor]

Top == stack[Len(stack)]
Entering == tstatus = "run" /\ Len(stack) > 0 /\ Top.stage = "enter"

\* main.go:124-126
Warn == warned' = (warned \/ Length(Top.direction) = 0)

\* the root pairs drawn for the rays of a trace: no root, both roots below
\* the tMin of a primary ray, the nearer root at it, a double root beyond it
TraceRootPairs ==
  {<<NoRoot, NoRoot>>, <<One \div 2, 0>>, <<2 * One, One>>, <<2 * One, 2 * One>>}
TraceRootsOf(spheres) ==
  {roots \in [1..Len(spheres) -> TraceRootPairs] :
     \A k \in 1..Len(spheres) : roots[k] \in SphereRoots(spheres[k])}

\* main.go:128  what FindClosest can come to on the ray of the innermost
\* invocation, over the roots drawn for the spheres
Closest ==
  {FindClosest(Top.direction, targs.spheres, roots, Top.tMin, MaxFloat64) :
     roots \in TraceRootsOf(targs.spheres)}

\* the innermost invocation returns clr
Return(clr) ==
  /\ stack' = SubSeq(stack, 1, Len(stack) - 1)
  /\ tret' = clr
  /\ tstatus' = IF Len(stack) = 1 THEN "done" ELSE "run"

\* main.go:124-128 with main.go:82-84  ComputeIntersection panics in FindClosest
TracePanic ==
  /\ Entering
  /\ \E hit \in Closest : hit.kind = "panic"
  /\ Warn
  /\ tstatus' = "panic"
  /\ UNCHANGED <<targs, stack, tret, calls, last, renderVars, fnVars>>

\* main.go:124-131  no sphere is hit: the background colour is returned
TraceMiss ==
  /\ Entering
  /\ \E hit \in Closest :
        /\ hit.kind = "ok"
        /\ IsNull(hit.val.sphere)
  /\ Warn
  /\ Return(Background)
  /\ UNCHANGED <<targs, calls, last, renderVars, fnVars>>

\* main.go:124-149  a sphere is hit and its locally shaded colour is returned
TraceLocal ==
  /\ Entering
  /\ \E hit \in Closest : \E lightSum \in LightSums :
            /\ hit.kind = "ok"
            /\ ~IsNull(hit.val.sphere)
            /\ hit.val.sphere.reflective <= 0 \/ Top.depth <= 0
            /\ LET localColor == LocalColor(hit.val.sphere.color, lightSum)
               IN  /\ Return(localColor)
                   /\ last' = [hit |-> TRUE,
                               reflective |-> hit.val.sphere.reflective,
                               depth |-> Top.depth, local |-> localColor,
                               reflected |-> NoColor, color |-> localColor]
  /\ Warn
  /\ UNCHANGED <<targs, calls, renderVars, fnVars>>

\* main.go:137-140 with main.go:59, 83  ComputeLighting panics at a hit
TraceLightPanic ==
  /\ Entering
  /\ \E hit \in Closest :
        /\ hit.kind = "ok"
        /\ ~IsNull(hit.val.sphere)
  /\ Warn
  /\ tstatus' = "panic"
  /\ UNCHANGED <<targs, stack, tret, calls, last, renderVars, fnVars>>

\* main.go:124-153  a reflective sphere is hit with depth left: TraceRay calls
\* itself on the reflected ray
TraceRecurse ==
  /\ Entering
  /\ \E hit \in Closest : \E lightSum \in LightSums :
     \E normal \in Normals :
            /\ hit.kind = "ok"
            /\ ~IsNull(hit.val.sphere)
            /\ ~(hit.val.sphere.reflective <= 0 \/ Top.depth <= 0)
            /\ LET reflectedRay == ReflectRay(Negate(Top.direction), normal)
                   waiting == [Top EXCEPT !.stage = "wait",
                                          !.sphere = hit.val.sphere,
                                          !.local = LocalColor(hit.val.sphere.color,
                                                               lightSum)]
               IN  stack' = Append([stack EXCEPT ![Len(stack)] = waiting],
                                   Frame(reflectedRay, ChildDepth(Top.depth),
                                         Epsilon))
  /\ Warn
  /\ calls' = calls + 1
  /\ UNCHANGED <<targs, tstatus, tret, last, renderVars, fnVars>>

\* main.go:153-163  the recursive call has returned: the colours are blended
\* and returned
TraceBlend ==
  /\ tstatus = "run"
  /\ Len(stack) > 0
  /\ Top.stage = "wait"
  /\ LET clr == Blend(Top.local, tret, Top.sphere.reflective)
     IN  /\ Return(clr)
         /\ last' = [hit |-> TRUE,
                     reflective |-> Top.sphere.reflective, depth |-> Top.depth,
                     local |-> Top.local, reflected |-> tret, color |-> clr]
  /\ UNCHANGED <<targs, calls, warned, renderVars, fnVars>>

TraceNext ==
  \/ TracePanic
  \/ TraceMiss
  \/ TraceLocal
  \/ TraceLightPanic
  \/ TraceRecurse
  \/ TraceBlend

\* ------------------------------------------------------ claims on TraceRay
\* C5: a TraceRay call with a zero-length direction prints the warning and
\* is recoverable: it never panics, and when it has returned it has warned
\* and returned a colour, for any scene of spheres.
C5_ZeroDirectionIsRecoverable ==
  Length(targs.direction) = 0 =>
     /\ tstatus # "panic"
     /\ tstatus = "done" => (warned /\ Len(tret) = 4)

\* C6: every recursive TraceRay call is made with a depth one less than its
\* caller's and only by a caller with depth > 0, so a top-level call with
\* depth d makes at most max(d, 0) + 1 invocations; and a call that has not
\* returned can always take its next step.
C6_RecursionBounded ==
  /\ calls <= MaxOf(targs.depth, 0) + 1
  /\ Len(stack) <= calls
  /\ \A k \in 2..Len(stack) :
        /\ stack[k].depth = stack[k - 1].depth - 1
        /\ stack[k - 1].depth > 0
  /\ tstatus = "run" => Len(stack) > 0

\* C6 witness: a top-level call with the largest depth has returned after
\* depth + 1 invocations
C6_Witness ==
  /\ tstatus = "done"
  /\ targs.depth = MaxDepth
  /\ calls = MaxDepth + 1

SameRGB(c1, c2) ==
  /\ Len(c1) = 4 /\ Len(c2) = 4
  /\ c1[1] = c2[1] /\ c1[2] = c2[2] /\ c1[3] = c2[3]

\* C9 as stated: on a hit, reflective = 0 returns the locally shaded colour
\* and reflective = 1 returns the colour of the recursively traced reflected
\* ray, in R, G and B.
C9_BlendIdentity ==
  last.hit =>
     /\ last.reflective = 0 => last.color = last.local
     /\ last.reflective = ReflDen => SameRGB(last.color, last.reflected)

\* C9 amended: on a hit, reflective = 0 returns the locally shaded colour,
\* and reflective = 1 with recursionDepth > 0 returns the colour of the
\* recursively traced reflected ray, in R, G and B.
C9_BlendIdentityWithDepth ==
  last.hit =>
     /\ last.reflective = 0 => last.color = last.local
     /\ (last.reflective = ReflDen /\ last.depth > 0) =>
           SameRGB(last.color, last.reflected)

\* C9 witness: a fully reflective sphere was hit with depth left, and the
\* reflected ray's colour differs from the locally shaded one
C9_Witness ==
  /\ last.hit
  /\ last.reflective = ReflDen
  /\ last.depth > 0
  /\ Len(last.reflected) = 4
  /\ ~SameRGB(last.local, last.reflected)
  /\ SameRGB(last.color, last.reflected)

vars == <<renderVars, fnVars, traceVars>>

Init == RenderInit /\ FnParked /\ TraceParked
Next == RenderNext
Spec == Init /\ [][Next]_vars

FindNext == CallFindClosest
SpecFind == FindInit /\ [][FindNext]_vars

LightNext == CallComputeLighting
SpecLight == LightInit /\ [][LightNext]_vars

BlendNext == CallBlend
SpecBlend == BlendInit /\ [][BlendNext]_vars

SpecTrace == TraceInit /\ [][TraceNext]_vars
====
